---- MODULE Spec2Model ----
(***************************************************************************)
(* Model of server-test/python/RAG_test/app.py: the RAG terminal app.      *)
(*                                                                         *)
(* Python strings are modelled as sequences of code points, so that        *)
(* split(), strip(), lower(), endswith(), f-string formatting and string   *)
(* comparison are computed as Python computes them.  A float score is      *)
(* modelled by an integer n standing for the float n.0.                    *)
(***************************************************************************)
EXTENDS Integers, Sequences, FiniteSets, TLC

VARIABLES
    folder,            \* DOC_FOLDER: the files in os.listdir order
    embFile,           \* chunk_embeddings.pt on disk
    chunksFile,        \* chunks.pkl on disk
    pc,                \* position of the process
    branch,            \* which arm of the start-up `if` this run took
    chunks,            \* list of (label, text)
    chunk_embeddings,  \* matrix, one row per embedded text
    embedded,          \* the texts given to embed_texts by the last call
    query,             \* the stripped input line
    scores,            \* scores[0].tolist() of this iteration
    top_chunks,        \* result of search in this iteration
    context,           \* the context block of this iteration
    response,          \* outcome of client.chat.completions.create
    printed,           \* what the process printed since the last prompt
    ct_text,           \* chunk_text: argument text
    ct_size,           \* chunk_text: argument chunk_size
    ct_chunks          \* chunk_text: returned list

vars == <<folder, embFile, chunksFile, pc, branch, chunks, chunk_embeddings,
          embedded, query, scores, top_chunks, context, response, printed,
          ct_text, ct_size, ct_chunks>>

appVars == <<folder, embFile, chunksFile, branch, chunks, chunk_embeddings,
             embedded, query, scores, top_chunks, context, response, printed>>

ctVars == <<ct_text, ct_size, ct_chunks>>

----------------------------------------------------------------------------
(* Bounds *)

MaxTextLen == 5      \* longest text given to chunk_text in SpecChunk
MaxSize == 3         \* largest chunk_size given to chunk_text in SpecChunk
MaxFiles == 2        \* most files in the document folder
MaxChunks == 6       \* largest corpus given to search in SpecSearch
MaxScore == 1        \* scores range over 0..MaxScore

----------------------------------------------------------------------------
(* Config *)

CHUNK_SIZE == 300

----------------------------------------------------------------------------
(* Python string primitives *)

Min(a, b) == IF a < b THEN a ELSE b

\* the whitespace str.split() and str.strip() recognise, within ASCII
IsSpace(c) == c \in {9, 10, 11, 12, 13, 32}

RECURSIVE SplitRange(_, _, _)
\* the words of s[lo..hi]: the words of the two halves, the word that runs
\* across the middle put together again
SplitRange(s, lo, hi) ==
    IF lo > hi THEN <<>>
    ELSE IF lo = hi THEN (IF IsSpace(s[lo]) THEN <<>> ELSE << <<s[lo]>> >>)
    ELSE LET mid == (lo + hi) \div 2
             left == SplitRange(s, lo, mid)
             right == SplitRange(s, mid + 1, hi)
         IN  IF ~IsSpace(s[mid]) /\ ~IsSpace(s[mid + 1])
             THEN SubSeq(left, 1, Len(left) - 1)
                      \o <<left[Len(left)] \o right[1]>>
                      \o Tail(right)
             ELSE left \o right

\* text.split()
Split(s) == SplitRange(s, 1, Len(s))

RECURSIVE JoinRange(_, _, _, _)
JoinRange(sep, parts, lo, hi) ==
    IF lo > hi THEN <<>>
    ELSE IF lo = hi THEN parts[lo]
    ELSE LET mid == (lo + hi) \div 2
         IN  JoinRange(sep, parts, lo, mid) \o sep \o JoinRange(sep, parts, mid + 1, hi)

\* sep.join(parts)
Join(sep, parts) == JoinRange(sep, parts, 1, Len(parts))

\* s.strip()
Strip(s) ==
    LET keep == {i \in 1..Len(s) : ~IsSpace(s[i])}
    IN  IF keep = {} THEN <<>>
        ELSE LET lo == CHOOSE i \in keep : \A j \in keep : i <= j
                 hi == CHOOSE i \in keep : \A j \in keep : j <= i
             IN  SubSeq(s, lo, hi)

\* s.lower(), within ASCII
Lower(s) == [i \in 1..Len(s) |-> IF s[i] \in 65..90 THEN s[i] + 32 ELSE s[i]]

\* s.endswith(suffix)
EndsWith(s, suffix) ==
    /\ Len(s) >= Len(suffix)
    /\ SubSeq(s, Len(s) - Len(suffix) + 1, Len(s)) = suffix

\* s < t for Python strings: by code point, a proper prefix is smaller
StrLess(s, t) ==
    \E i \in 1..(Min(Len(s), Len(t)) + 1) :
        /\ \A j \in 1..(i - 1) : s[j] = t[j]
        /\ \/ i > Len(s) /\ i <= Len(t)
           \/ i <= Len(s) /\ i <= Len(t) /\ s[i] < t[i]

RECURSIVE Digits(_)
\* str(n) for an int n >= 0
Digits(n) == IF n < 10 THEN <<48 + n>> ELSE Digits(n \div 10) \o <<48 + (n % 10)>>

\* str(x) for the float x = n.0, n >= 0
FloatStr(n) == Digits(n) \o <<46, 48>>

\* repr(s) for a str without quotes, backslashes or control characters
Repr(s) == <<39>> \o s \o <<39>>

----------------------------------------------------------------------------
(* Chunker *)

\* the words[i:i + chunk_size] of the k-th step of range(0, len(words), chunk_size)
Window(words, k, chunk_size) ==
    SubSeq(words, (k - 1) * chunk_size + 1, Min(k * chunk_size, Len(words)))

\* the range without its last, partial step
RangeLenFloor(n, step) == n \div step

\* len(range(0, n, step))
RangeLen(n, step) == (n + step - 1) \div step

chunk_text(text, chunk_size) ==
    LET words == Split(text)
    IN  [k \in 1..RangeLen(Len(words), chunk_size) |->
            Join(<<32>>, Window(words, k, chunk_size))]

----------------------------------------------------------------------------
(* Search *)

\* f"{fname} [chunk {i}]"
Label(fname, i) == fname \o <<32, 91, 99, 104, 117, 110, 107, 32>> \o Digits(i) \o <<93>>

\* (label, text) < (label', text') for Python tuples of strings
ChunkLess(c, d) ==
    \/ StrLess(c[1], d[1])
    \/ c[1] = d[1] /\ StrLess(c[2], d[2])

\* (score, chunk) < (score', chunk') for Python tuples
PairLess(a, b) ==
    \/ a[1] < b[1]
    \/ a[1] = b[1] /\ ChunkLess(a[2], b[2])

\* zip(xs, ys): stops at the shorter argument
Zip(xs, ys) == [i \in 1..Min(Len(xs), Len(ys)) |-> <<xs[i], ys[i]>>]

\* x put into the descending list, behind the elements that are not smaller
InsertDesc(sorted, x) ==
    LET smaller == {i \in 1..Len(sorted) : PairLess(sorted[i], x)}
        at == IF smaller = {} THEN Len(sorted) + 1
              ELSE CHOOSE i \in smaller : \A j \in smaller : i <= j
    IN  SubSeq(sorted, 1, at - 1) \o <<x>> \o SubSeq(sorted, at, Len(sorted))

RECURSIVE SortedFrom(_, _, _)
SortedFrom(xs, i, acc) ==
    IF i > Len(xs) THEN acc ELSE SortedFrom(xs, i + 1, InsertDesc(acc, xs[i]))

\* sorted(xs): ascending
sorted_ascending(xs) ==
    LET d == SortedFrom(xs, 1, <<>>)
    IN  [i \in 1..Len(d) |-> d[Len(d) + 1 - i]]

\* sorted(xs, reverse=True): descending, equal elements keep their order
sorted_reverse(xs) == SortedFrom(xs, 1, <<>>)

TopK == 5

\* the ranking of search, from the score vector on
search(score_list, chunk_list) ==
    LET ranked == sorted_reverse(Zip(score_list, chunk_list))
    IN  SubSeq(ranked, 1, Min(TopK, Len(ranked)))

----------------------------------------------------------------------------
(* PDF loader *)

\* page.extract_text() or ""
PageText(page) == IF page.none THEN <<>> ELSE page.text

\* "\n".join(page.extract_text() or "" for page in pdf.pages)
PdfText(file) == Join(<<10>>, [p \in 1..Len(file.pages) |-> PageText(file.pages[p])])

\* fname.lower().endswith(".pdf")
IsPdf(fname) == EndsWith(Lower(fname), <<46, 112, 100, 102>>)

\* the (label, chunk) pairs of one file
FileChunks(file) ==
    IF IsPdf(file.fname)
    THEN LET cs == chunk_text(PdfText(file), CHUNK_SIZE)
         IN  [i \in 1..Len(cs) |-> <<Label(file.fname, i - 1), cs[i]>>]
    ELSE <<>>

RECURSIVE ExtractFrom(_, _, _)
ExtractFrom(files, f, all_chunks) ==
    IF f > Len(files) THEN all_chunks
    ELSE ExtractFrom(files, f + 1, all_chunks \o FileChunks(files[f]))

extract_chunks_from_pdfs(files) == ExtractFrom(files, 1, <<>>)

----------------------------------------------------------------------------
(* Embedding *)

\* "Instruct: Given a user question, retrieve relevant context to answer it.\nQuery: "
InstructionPrefix ==
    <<73, 110, 115, 116, 114, 117, 99, 116, 58, 32, 71, 105, 118, 101, 110, 32, 97, 32,
      117, 115, 101, 114, 32, 113, 117, 101, 115, 116, 105, 111, 110, 44, 32, 114, 101,
      116, 114, 105, 101, 118, 101, 32, 114, 101, 108, 101, 118, 97, 110, 116, 32, 99,
      111, 110, 116, 101, 120, 116, 32, 116, 111, 32, 97, 110, 115, 119, 101, 114, 32,
      105, 116, 46, 10, 81, 117, 101, 114, 121, 58, 32>>

get_instruction(text) == InstructionPrefix \o text

\* one row per text, in order; a row is the model's embedding of its text
embed_texts(texts) == [i \in 1..Len(texts) |-> [of |-> texts[i]]]

\* chunk_texts: the texts the ingestion embeds
chunk_texts(chunk_list) == [i \in 1..Len(chunk_list) |-> get_instruction(chunk_list[i][2])]

\* the values (query_embedding @ chunk_embeddings.T) * 100 may take: one score
\* per row, equal rows scoring equally
ScoreVectors(matrix) ==
    {sv \in [1..Len(matrix) -> 0..MaxScore] :
        \A i, j \in 1..Len(matrix) : matrix[i] = matrix[j] => sv[i] = sv[j]}

----------------------------------------------------------------------------
(* Context block *)

\* str((label, text))
TupleStr(c) == <<40>> \o Repr(c[1]) \o <<44, 32>> \o Repr(c[2]) \o <<41>>

\* f"[{meta}]\n{text}" for meta, text in top_chunks: an entry of top_chunks is
\* (score, (label, text)), so meta is bound to the score and text to the pair
ContextEntry(entry) ==
    LET meta == entry[1]
        text == entry[2]
    IN  <<91>> \o FloatStr(meta) \o <<93, 10>> \o TupleStr(text)

\* "\n---\n".join([...])
ContextBlock(top) ==
    Join(<<10, 45, 45, 45, 10>>, [i \in 1..Len(top) |-> ContextEntry(top[i])])

----------------------------------------------------------------------------
(* Completion call *)

Line(kind, text, exc) == [kind |-> kind, text |-> text, exc |-> exc]

\* the exception, if any, raised inside the try block for this outcome of
\* client.chat.completions.create
RaisedInTry(resp) ==
    IF resp.raised # "" THEN resp.raised
    ELSE IF resp.choices = <<>> THEN "IndexError"
    ELSE IF resp.choices[1].message.isNone THEN "AttributeError"
    ELSE IF resp.choices[1].message.content.isNone THEN "AttributeError"
    ELSE ""

\* except openai.APIConnectionError: network failures only
CaughtByExceptNetwork(e) == e \in {"APIConnectionError", "APITimeoutError"}

\* except Exception: the classes the handler catches
CaughtByExcept(e) == e \in {"APIConnectionError", "APITimeoutError", "IndexError", "AttributeError"}

\* what ask_openai prints, and the exception that leaves it, if any
ask_openai(resp) ==
    LET e == RaisedInTry(resp)
    IN  IF e = ""
        THEN LET answer == Strip(resp.choices[1].message.content.val)
             IN  [printed |-> <<Line("answer_header", <<>>, ""),
                                IF answer # <<>>
                                THEN Line("answer", answer, "")
                                ELSE Line("no_response", <<>>, "")>>,
                  raised |-> ""]
        ELSE IF CaughtByExcept(e)
             THEN [printed |-> <<Line("error", <<>>, e)>>, raised |-> ""]
             ELSE [printed |-> <<>>, raised |-> e]

----------------------------------------------------------------------------
(* chunk_text as a pure function: SpecChunk *)

Alphabet == {32, 10, 97, 98}

RECURSIVE StringsUpTo(_)
StringsUpTo(n) ==
    IF n = 0 THEN {<<>>}
    ELSE LET shorter == StringsUpTo(n - 1)
         IN  shorter \cup {Append(s, c) : s \in {t \in shorter : Len(t) = n - 1}, c \in Alphabet}

NoFile == [exists |-> FALSE, data |-> <<>>]
NoResponse == [raised |-> "", choices |-> <<>>]
NoEmbedCall == [phase |-> "none", texts |-> <<>>]

AppIdle ==
    /\ folder = <<>>
    /\ embFile = NoFile
    /\ chunksFile = NoFile
    /\ branch = "none"
    /\ chunks = <<>>
    /\ chunk_embeddings = <<>>
    /\ embedded = NoEmbedCall
    /\ query = <<>>
    /\ scores = <<>>
    /\ top_chunks = <<>>
    /\ context = <<>>
    /\ response = NoResponse
    /\ printed = <<>>

InitChunk ==
    /\ pc = "ct_call"
    /\ ct_text \in StringsUpTo(MaxTextLen)
    /\ ct_size \in 1..MaxSize
    /\ ct_chunks = <<>>
    /\ AppIdle

CallChunkText ==
    /\ pc = "ct_call"
    /\ ct_chunks' = chunk_text(ct_text, ct_size)
    /\ pc' = "ct_done"
    /\ UNCHANGED <<ct_text, ct_size>>
    /\ UNCHANGED appVars

NextChunk == CallChunkText

SpecChunk == InitChunk /\ [][NextChunk]_vars

RECURSIVE Flatten(_)
Flatten(ss) == IF ss = <<>> THEN <<>> ELSE ss[1] \o Flatten(Tail(ss))

WindowWords == [k \in 1..Len(ct_chunks) |-> Split(ct_chunks[k])]

\* C10: the windows' words, concatenated in order, are the words of the text;
\* every window but the last holds exactly chunk_size words, the last between
\* 1 and chunk_size; there are ceil(word_count / chunk_size) windows, 0 for an
\* empty or whitespace-only text.
ChunkTextPartitionsWords ==
    pc = "ct_done" =>
        LET wc == Len(Split(ct_text))
            n == Len(ct_chunks)
        IN  /\ Flatten(WindowWords) = Split(ct_text)
            /\ \A k \in 1..(n - 1) : Len(WindowWords[k]) = ct_size
            /\ n > 0 => Len(WindowWords[n]) \in 1..ct_size
            /\ n * ct_size >= wc
            /\ (n - 1) * ct_size < wc
            /\ (\A i \in 1..Len(ct_text) : IsSpace(ct_text[i])) => n = 0

\* a text of several windows whose last window is short has been chunked
ChunkTextShortLastWindow ==
    /\ pc = "ct_done"
    /\ Len(ct_chunks) = 2
    /\ ct_size = 2
    /\ Len(Split(ct_text)) = 3
    /\ \E i \in 1..Len(ct_text) : ct_text[i] = 10

----------------------------------------------------------------------------
(* search as a pure function: SpecSearch *)

\* the j-th file name: a.pdf, b.pdf, ...
PoolName(j) == <<96 + j>> \o <<46, 112, 100, 102>>

PoolFiles == (MaxChunks + 1) \div 2

\* the chunks of PoolFiles files of two chunks each, files in the given order
PoolCorpus(descending) ==
    [p \in 1..(2 * PoolFiles) |->
        LET f == (p + 1) \div 2
            j == IF descending THEN PoolFiles + 1 - f ELSE f
            i == (p + 1) % 2
        IN  <<Label(PoolName(j), i), <<120 + i>> >>]

InitSearch ==
    /\ pc = "sr_call"
    /\ \E descending \in BOOLEAN, n \in 0..MaxChunks :
          /\ chunks = SubSeq(PoolCorpus(descending), 1, n)
          /\ scores \in [1..n -> 0..MaxScore]
    /\ top_chunks = <<>>
    /\ folder = <<>>
    /\ embFile = NoFile
    /\ chunksFile = NoFile
    /\ branch = "none"
    /\ chunk_embeddings = <<>>
    /\ embedded = NoEmbedCall
    /\ query = <<>>
    /\ context = <<>>
    /\ response = NoResponse
    /\ printed = <<>>
    /\ ct_text = <<>>
    /\ ct_size = 1
    /\ ct_chunks = <<>>

CallSearch ==
    /\ pc = "sr_call"
    /\ top_chunks' = search(scores, chunks)
    /\ pc' = "sr_done"
    /\ UNCHANGED <<folder, embFile, chunksFile, branch, chunks, chunk_embeddings,
                   embedded, query, scores, context, response, printed>>
    /\ UNCHANGED ctVars

NextSearch == CallSearch

SpecSearch == InitSearch /\ [][NextSearch]_vars

\* position of a chunk in the corpus
CorpusPos(c) == CHOOSE p \in 1..Len(chunks) : chunks[p] = c

\* C2: of two returned entries of equal score, the one whose chunk is earlier
\* in the corpus is earlier in the result.
TiesInCorpusOrder ==
    pc = "sr_done" =>
        \A i, j \in 1..Len(top_chunks) :
            (i < j /\ top_chunks[i][1] = top_chunks[j][1])
                => CorpusPos(top_chunks[i][2]) < CorpusPos(top_chunks[j][2])

\* C9: search returns min(5, n) entries, in descending score order, and no
\* chunk left out has a score greater than a returned one.
TopKDescending ==
    pc = "sr_done" =>
        LET n == Len(chunks)
            all == {<<scores[p], chunks[p]>> : p \in 1..n}
            got == {top_chunks[i] : i \in 1..Len(top_chunks)}
        IN  /\ Len(top_chunks) = Min(5, n)
            /\ got \subseteq all
            /\ Cardinality(got) = Len(top_chunks)
            /\ \A i, j \in 1..Len(top_chunks) :
                  i < j => top_chunks[i][1] >= top_chunks[j][1]
            /\ \A e \in all \ got : \A g \in got : e[1] <= g[1]

\* a corpus larger than 5 with distinct scores has been ranked
TopKCutsLargeCorpus ==
    /\ pc = "sr_done"
    /\ Len(chunks) = 6
    /\ Len(top_chunks) = 5
    /\ scores[6] = 1
    /\ scores[1] = 0
    /\ top_chunks[1][2] = chunks[6]

----------------------------------------------------------------------------
(* The app: Spec *)

Page(text) == [none |-> FALSE, text |-> text]
NonePage == [none |-> TRUE, text |-> <<>>]

\* n one-letter words
Words(n) == [i \in 1..(2 * n - 1) |-> IF i % 2 = 1 THEN 97 ELSE 32]

\* the files a document folder is made of
FilePool ==
    { [fname |-> <<97, 46, 112, 100, 102>>, pages |-> <<Page(<<120, 32, 121>>)>>],
      [fname |-> <<66, 46, 80, 68, 70>>, pages |-> <<NonePage, Page(<<98>>)>>],
      [fname |-> <<110, 46, 116, 120, 116>>, pages |-> <<Page(<<122, 122>>)>>],
      [fname |-> <<101, 46, 112, 100, 102>>, pages |-> <<Page(<<32>>), NonePage>>],
      [fname |-> <<108, 46, 112, 100, 102>>, pages |-> <<Page(Words(CHUNK_SIZE)), Page(Words(1))>>] }

RECURSIVE FoldersUpTo(_)
\* listings of at most n distinct files, in any order
FoldersUpTo(n) ==
    IF n = 0 THEN {<<>>}
    ELSE LET shorter == FoldersUpTo(n - 1)
         IN  shorter \cup
             {Append(fs, f) : fs \in {g \in shorter : Len(g) = n - 1},
                              f \in FilePool}

Distinct(fs) == \A i, j \in 1..Len(fs) : i # j => fs[i] # fs[j]

Folders == {fs \in FoldersUpTo(MaxFiles) : Distinct(fs)}

\* the folders an artifact left by an earlier run was ingested from
EarlierFolders == {fs \in Folders : Len(fs) = 1 /\ extract_chunks_from_pdfs(fs) # <<>>}

\* the lines input() may return
InputLines == { <<101, 120, 105, 116>>, <<32, 81, 117, 105, 116, 32>>, <<104, 105>>, <<>> }

Message(content) == [isNone |-> FALSE, content |-> content]
Content(val) == [isNone |-> FALSE, val |-> val]
NoneContent == [isNone |-> TRUE, val |-> <<>>]
NoneMessage == [isNone |-> TRUE, content |-> NoneContent]
Returned(choices) == [raised |-> "", choices |-> choices]

\* the outcomes of client.chat.completions.create
Responses ==
    { [raised |-> "APIConnectionError", choices |-> <<>>],
      Returned(<<>>),
      Returned(<<[message |-> NoneMessage]>>),
      Returned(<<[message |-> Message(NoneContent)]>>),
      Returned(<<[message |-> Message(Content(<<>>))]>>),
      Returned(<<[message |-> Message(Content(<<32, 10>>))]>>),
      Returned(<<[message |-> Message(Content(<<111, 107>>))]>>),
      Returned(<<[message |-> Message(Content(<<32, 111, 107, 10>>))]>>) }

File(data) == [exists |-> TRUE, data |-> data]

Init ==
    /\ pc = "start"
    /\ folder \in Folders
    /\ \/ embFile = NoFile /\ chunksFile = NoFile
       \/ \E old \in EarlierFolders :
             LET cs == extract_chunks_from_pdfs(old)
             IN  \/ embFile = File(embed_texts(chunk_texts(cs))) /\ chunksFile = NoFile
                 \/ embFile = NoFile /\ chunksFile = File(cs)
    /\ branch = "none"
    /\ chunks = <<>>
    /\ chunk_embeddings = <<>>
    /\ embedded = NoEmbedCall
    /\ query = <<>>
    /\ scores = <<>>
    /\ top_chunks = <<>>
    /\ context = <<>>
    /\ response = NoResponse
    /\ printed = <<>>
    /\ ct_text = <<>>
    /\ ct_size = 1
    /\ ct_chunks = <<>>

\* os.path.exists(EMBEDDING_FILE) or os.path.exists(CHUNKS_FILE)
CacheExistsEither(emb, chk) == emb.exists \/ chk.exists

\* os.path.exists(EMBEDDING_FILE) and os.path.exists(CHUNKS_FILE)
CacheExists(emb, chk) == emb.exists /\ chk.exists

\* the emptiness test left out
NotChunksSkipped(chunk_list) == FALSE

\* not chunks
NotChunks(chunk_list) == chunk_list = <<>>

\* the `if` arm: load both artifacts
LoadCached ==
    /\ pc = "start"
    /\ CacheExists(embFile, chunksFile)
    /\ branch' = "load"
    /\ chunk_embeddings' = embFile.data
    /\ chunks' = chunksFile.data
    /\ printed' = <<Line("loaded", <<>>, "")>>
    /\ pc' = "prompt"
    /\ UNCHANGED <<folder, embFile, chunksFile, embedded, query, scores,
                   top_chunks, context, response>>
    /\ UNCHANGED ctVars

\* the `else` arm up to the embedding
Ingest ==
    /\ pc = "start"
    /\ ~CacheExists(embFile, chunksFile)
    /\ branch' = "ingest"
    /\ chunks' = extract_chunks_from_pdfs(folder)
    /\ IF NotChunks(chunks')
       THEN /\ printed' = <<Line("no_content", <<>>, "")>>
            /\ pc' = "exited"
            /\ UNCHANGED <<chunk_embeddings, embedded>>
       ELSE /\ embedded' = [phase |-> "ingest", texts |-> chunk_texts(chunks')]
            /\ chunk_embeddings' = embed_texts(chunk_texts(chunks'))
            /\ printed' = <<Line("extracting", <<>>, "")>>
            /\ pc' = "save_embeddings"
    /\ UNCHANGED <<folder, embFile, chunksFile, query, scores, top_chunks,
                   context, response>>
    /\ UNCHANGED ctVars

\* torch.save(chunk_embeddings, EMBEDDING_FILE)
SaveEmbeddings ==
    /\ pc = "save_embeddings"
    /\ embFile' = File(chunk_embeddings)
    /\ pc' = "save_chunks"
    /\ UNCHANGED <<folder, chunksFile, branch, chunks, chunk_embeddings, embedded,
                   query, scores, top_chunks, context, response, printed>>
    /\ UNCHANGED ctVars

\* pickle.dump(chunks, f)
SaveChunks ==
    /\ pc = "save_chunks"
    /\ chunksFile' = File(chunks)
    /\ printed' = <<Line("cached", <<>>, "")>>
    /\ pc' = "prompt"
    /\ UNCHANGED <<folder, embFile, branch, chunks, chunk_embeddings, embedded,
                   query, scores, top_chunks, context, response>>
    /\ UNCHANGED ctVars

\* the process is killed between the two writes
Interrupt ==
    /\ pc = "save_chunks"
    /\ pc' = "killed"
    /\ UNCHANGED appVars
    /\ UNCHANGED ctVars

\* input(...).strip() and the exit test.  The values the previous iteration
\* left in scores, top_chunks and context are rebound before they are read
\* again, and its response and output are over: the iteration starts without
\* them.
ReadQuery ==
    /\ pc = "prompt"
    /\ \E line \in InputLines :
          /\ query' = Strip(line)
          /\ pc' = IF Lower(query') \in {<<101, 120, 105, 116>>, <<113, 117, 105, 116>>}
                   THEN "done" ELSE "search"
    /\ scores' = <<>>
    /\ top_chunks' = <<>>
    /\ context' = <<>>
    /\ response' = NoResponse
    /\ printed' = <<>>
    /\ UNCHANGED <<folder, embFile, chunksFile, branch, chunks, chunk_embeddings,
                   embedded>>
    /\ UNCHANGED ctVars

\* search(query, chunks, chunk_embeddings) and the context block
Search ==
    /\ pc = "search"
    /\ embedded' = [phase |-> "query", texts |-> <<get_instruction(query)>>]
    /\ scores' \in ScoreVectors(chunk_embeddings)
    /\ top_chunks' = search(scores', chunks)
    /\ context' = ContextBlock(top_chunks')
    /\ pc' = "ask"
    /\ UNCHANGED <<folder, embFile, chunksFile, branch, chunks, chunk_embeddings,
                   query, response, printed>>
    /\ UNCHANGED ctVars

\* ask_openai(context, query)
Ask ==
    /\ pc = "ask"
    /\ \E resp \in Responses :
          /\ response' = resp
          /\ printed' = ask_openai(resp).printed
          /\ pc' = IF ask_openai(resp).raised = "" THEN "prompt" ELSE "crashed"
    /\ UNCHANGED <<folder, embFile, chunksFile, branch, chunks, chunk_embeddings,
                   embedded, query, scores, top_chunks, context>>
    /\ UNCHANGED ctVars

\* the program is started again: a new process over the same disk
Rerun ==
    /\ pc \in {"exited", "killed", "done", "crashed"}
    /\ pc' = "start"
    /\ branch' = "none"
    /\ chunks' = <<>>
    /\ chunk_embeddings' = <<>>
    /\ embedded' = NoEmbedCall
    /\ query' = <<>>
    /\ scores' = <<>>
    /\ top_chunks' = <<>>
    /\ context' = <<>>
    /\ response' = NoResponse
    /\ printed' = <<>>
    /\ UNCHANGED <<folder, embFile, chunksFile>>
    /\ UNCHANGED ctVars

Next ==
    \/ LoadCached
    \/ Ingest
    \/ SaveEmbeddings
    \/ SaveChunks
    \/ Interrupt
    \/ ReadQuery
    \/ Search
    \/ Ask
    \/ Rerun

Spec == Init /\ [][Next]_vars

----------------------------------------------------------------------------
(* Properties of the app *)

LoopPcs == {"prompt", "search", "ask"}

ExitWords == {<<101, 120, 105, 116>>, <<113, 117, 105, 116>>}

HasLine(lines, kind) == \E l \in 1..Len(lines) : lines[l].kind = kind

\* C1: a run that loads the cache gets chunks and a matrix of one ingestion:
\* as many rows as chunks, row i the embedding of chunk i.
CachedPairConsistent ==
    branch = "load" =>
        /\ Len(chunks) = Len(chunk_embeddings)
        /\ chunk_embeddings = embed_texts(chunk_texts(chunks))

\* C3: the texts embedded at ingestion are the unmodified chunk texts, the
\* text embedded for a query is the query in the instruction template.
DocumentsEmbeddedRaw ==
    /\ embedded.phase = "ingest" =>
          embedded.texts = [i \in 1..Len(chunks) |-> chunks[i][2]]
    /\ embedded.phase = "query" =>
          embedded.texts = <<get_instruction(query)>>

\* C4: the context block is, in ranking order, one entry per retrieved chunk,
\* "[label]" newline text, entries separated by the delimiter.
ContextIsLabelAndText ==
    pc = "ask" =>
        context = Join(<<10, 45, 45, 45, 10>>,
                       [i \in 1..Len(top_chunks) |->
                           <<91>> \o top_chunks[i][2][1] \o <<93, 10>> \o top_chunks[i][2][2]])

\* the call returned a message without content: null, empty or whitespace
ReturnedNoContent(resp) ==
    /\ resp.raised = ""
    /\ resp.choices # <<>>
    /\ ~resp.choices[1].message.isNone
    /\ \/ resp.choices[1].message.content.isNone
       \/ Strip(resp.choices[1].message.content.val) = <<>>

\* C5: a successful call without content is answered with the 'no response'
\* message and never with the error message.
EmptyAnswerIsNotAnError ==
    ReturnedNoContent(response) =>
        /\ HasLine(printed, "no_response")
        /\ ~HasLine(printed, "error")

\* the call failed: it raised, or the response lacks choices or the message
ServiceFailed(resp) ==
    \/ resp.raised # ""
    \/ resp.choices = <<>>
    \/ resp.choices[1].message.isNone

\* C6: a failure of the completion service is reported and the loop goes back
\* to the prompt; the loop is left only by the input exit or quit.
CompletionFailureNotFatal ==
    /\ [][pc = "ask" =>
            /\ pc' = "prompt"
            /\ ServiceFailed(response') => HasLine(printed', "error")]_vars
    /\ [][(pc \in LoopPcs /\ pc' \notin LoopPcs) =>
            /\ pc = "prompt"
            /\ pc' = "done"
            /\ Lower(query') \in ExitWords]_vars

\* a malformed response was reported and the loop is back at the prompt
MalformedResponseReported ==
    /\ pc = "prompt"
    /\ response.raised = ""
    /\ response.choices = <<>>
    /\ HasLine(printed, "error")

\* C7: with the cache absent or partial the run ingests the folder anew and
\* has written both artifacts when it reaches the query loop; it loads only
\* when both files exist.
PartialCacheReingests ==
    /\ [](branch = "load" => embFile.exists /\ chunksFile.exists)
    /\ []((branch = "ingest" /\ pc \in LoopPcs) =>
            /\ chunks # <<>>
            /\ embFile = File(chunk_embeddings)
            /\ chunksFile = File(chunks))
    /\ [][(pc = "start" /\ ~(embFile.exists /\ chunksFile.exists)) =>
            /\ branch' = "ingest"
            /\ chunks' = extract_chunks_from_pdfs(folder)
            /\ pc' \in {"exited", "save_embeddings"}
            /\ pc' = "save_embeddings" =>
                  chunk_embeddings' = embed_texts(embedded'.texts)]_vars

\* a run that found only a chunks file of an earlier ingestion has ingested
\* the folder anew and is between its two writes
PartialCacheWasReingested ==
    /\ branch = "ingest"
    /\ pc = "save_chunks"
    /\ chunks = extract_chunks_from_pdfs(folder)
    /\ embFile = File(chunk_embeddings)
    /\ chunksFile.exists
    /\ chunksFile.data # chunks

\* no file of the folder is a PDF with a word on some page
NoExtractableText(files) ==
    \A f \in 1..Len(files) :
        \/ ~IsPdf(files[f].fname)
        \/ \A p \in 1..Len(files[f].pages) :
              \A i \in 1..Len(PageText(files[f].pages[p])) :
                  IsSpace(PageText(files[f].pages[p])[i])

\* C8: when ingestion yields no chunks the run reports it and ends: no
\* embedding call, no cache file written, the query loop never entered.
EmptyIngestionExits ==
    /\ [][(pc = "start" /\ ~(embFile.exists /\ chunksFile.exists)
                        /\ NoExtractableText(folder)) =>
            /\ pc' = "exited"
            /\ printed' = <<Line("no_content", <<>>, "")>>
            /\ embedded' = NoEmbedCall
            /\ embFile' = embFile
            /\ chunksFile' = chunksFile]_vars
    /\ [][pc = "exited" =>
            /\ pc' = "start"
            /\ embFile' = embFile
            /\ chunksFile' = chunksFile]_vars

\* a folder holding only a PDF without text made the run end
TextlessPdfExited ==
    /\ pc = "exited"
    /\ Len(folder) > 0
    /\ \E f \in 1..Len(folder) : IsPdf(folder[f].fname)
    /\ HasLine(printed, "no_content")
    /\ embedded = NoEmbedCall

====
